---- MODULE Spec2Model ----
(***************************************************************************)
(* Cryptographic data vault: KeyManager (key derivation, rotation, the     *)
(* current/previous pair), EncryptionService (AES-256-GCM over a JSON      *)
(* payload, base64 serialisation), DataStore (in-memory Map) and           *)
(* VaultService (store / retrieve / forceRotation / destroy).              *)
(*                                                                         *)
(* Node.js runs every handler (an HTTP request, a timer callback) to       *)
(* completion on one thread, so each handler is one action.                *)
(*                                                                         *)
(* Cryptography is idealised: HKDF is injective in (ikm, salt, info), the  *)
(* GCM tag is an injective function of (key, iv, ciphertext), and a byte   *)
(* string is a symbolic body together with an XOR mask (the set of bit     *)
(* positions that were flipped since it was produced).                     *)
(***************************************************************************)
EXTENDS Integers, Sequences, FiniteSets, TLC

(***************************************************************************)
(* Bounds of the model                                                     *)
(***************************************************************************)
MaxVersion == 3     \* rotations stop once currentVersion reaches this
MaxRecords == 1     \* number of store() calls that add a record
MaxTime == 2        \* the clock stops here
MaxTampers == 1     \* number of bit flips applied to stored records
NumIVs == 1         \* distinct values crypto.randomBytes(12) can return
MaxEncryptions == 2 \* number of direct encrypt() calls that are logged
MaxQueued == 2      \* rotateKey invocations triggered and not yet completed

(***************************************************************************)
(* Program constants                                                       *)
(***************************************************************************)
ivLength == 12
tagLength == 16
rotationIntervalMs == 2

NoVersion == 0      \* JavaScript null in previousVersion (versions are >= 1)

(***************************************************************************)
(* JavaScript values used as payloads: a primitive, or an object {a: p}    *)
(* with one property.  t is "number", "infinity", "null" or "undefined".   *)
(***************************************************************************)
Prim(t, n) == [obj |-> FALSE, t |-> t, n |-> n]
Obj(t, n) == [obj |-> TRUE, t |-> t, n |-> n]
Corrupt == [obj |-> FALSE, t |-> "corrupt", n |-> 0]   \* parsed from garbled bytes
NoData == [obj |-> FALSE, t |-> "none", n |-> 0]        \* no value at all

Payloads ==
  { Obj("number", 1),        \* {a: 1}
    Obj("infinity", 0),      \* {a: Infinity}, e.g. parsed from {"a":1e999}
    Prim("undefined", 0) }   \* undefined

Digits == 0..9

(* JSON.stringify of a primitive that is not undefined: a list of tokens. *)
PrimText(t, n) ==
  IF t = "number" THEN <<ToString(n)>> ELSE <<"null">>

NoText == <<>>      \* JSON.stringify returned undefined (not a string)

(* JSON.stringify(data) *)
JSONstringify(v) ==
  IF v.obj
    THEN IF v.t = "undefined"
           THEN <<"{", "}">>
           ELSE <<"{", "\"a\"", ":">> \o PrimText(v.t, v.n) \o <<"}">>
    ELSE IF v.t = "undefined" THEN NoText ELSE PrimText(v.t, v.n)

PrimParse(tok) ==
  IF tok = "null"
    THEN [t |-> "null", n |-> 0]
    ELSE [t |-> "number", n |-> CHOOSE d \in Digits : ToString(d) = tok]

(* JSON.parse(text) for the texts JSONstringify produces *)
JSONparse(text) ==
  IF Head(text) = "{"
    THEN IF Len(text) = 2
           THEN Obj("undefined", 0)
           ELSE Obj(PrimParse(text[4]).t, PrimParse(text[4]).n)
    ELSE Prim(PrimParse(text[1]).t, PrimParse(text[1]).n)

TokenLen(tok) == IF tok = "\"a\"" THEN 3 ELSE IF tok = "null" THEN 4 ELSE 1

RECURSIVE TextLen(_)
TextLen(text) ==
  IF text = <<>> THEN 0 ELSE TokenLen(Head(text)) + TextLen(Tail(text))

(***************************************************************************)
(* Byte strings.  body is what the bytes were computed from, mask the set  *)
(* of bit positions flipped since (two byte strings are equal iff both     *)
(* agree).  len is the length in bytes.                                    *)
(***************************************************************************)
Bytes(kind, len, body) == [kind |-> kind, len |-> len, body |-> body, mask |-> {}]

(* flipping one bit: XOR with a one-bit mask *)
FlipBit(buf, bit) ==
  [buf EXCEPT !.mask = IF bit \in @ THEN @ \ {bit} ELSE @ \cup {bit}]

(* Buffer.from(text, 'utf8') of a JSON text *)
Utf8Buffer(text) == Bytes("utf8", TextLen(text), text)

(* buffer.toString('base64'): 4 characters per 3 bytes, '=' padding *)
toBase64(buf) ==
  [encoding |-> "base64",
   chars |-> 4 * ((buf.len + 2) \div 3),
   pad |-> (3 - (buf.len % 3)) % 3,
   kind |-> buf.kind, body |-> buf.body, mask |-> buf.mask]

(* Buffer.from(string, 'base64') *)
fromBase64(str) ==
  [kind |-> str.kind, len |-> 3 * (str.chars \div 4) - str.pad,
   body |-> str.body, mask |-> str.mask]

(***************************************************************************)
(* Keys.  crypto.hkdfSync returns an ArrayBuffer; the master key is a      *)
(* Buffer.  A zeroed key has lost its bytes.                               *)
(***************************************************************************)
NoKey == [type |-> "null", ikm |-> "none", salt |-> "none", info |-> 0, zeroed |-> FALSE]

(* crypto.hkdfSync('sha256', ikm, salt, info, 32); info is the version of *)
(* the label `vault-key-v${version}`                                      *)
hkdfSync(ikm, salt, info) ==
  [type |-> "ArrayBuffer", ikm |-> ikm, salt |-> salt, info |-> info, zeroed |-> FALSE]

(* the 32 bytes a key object holds *)
KeyBytes(key) ==
  IF key.zeroed THEN <<"zero", "none", 0>> ELSE <<key.ikm, key.salt, key.info>>

(* crypto.randomBytes(32): one symbolic salt; keys differ by their info label *)
Salts == {"salt"}
IVs == 1..NumIVs

(* crypto.randomBytes(this.ivLength) *)
RandomIV(r) == Bytes("iv", ivLength, <<r>>)

(***************************************************************************)
(* AES-256-GCM                                                             *)
(***************************************************************************)
(* the tag GCM computes over a ciphertext under (key, iv) *)
GcmTag(key, iv, ciphertext) ==
  Bytes("tag", tagLength,
        [key |-> KeyBytes(key), iv |-> <<iv.body, iv.mask, iv.len>>,
         ct |-> <<ciphertext.body, ciphertext.mask, ciphertext.len>>])

(* counter-mode encryption of the plaintext bytes *)
GcmCiphertext(key, iv, plaintextBuffer) ==
  Bytes("ct", plaintextBuffer.len,
        [key |-> KeyBytes(key), iv |-> <<iv.body, iv.mask, iv.len>>,
         pt |-> plaintextBuffer.body])

(* counter-mode decryption: XOR with the key stream keeps the flipped bits; *)
(* another key or iv gives unrelated bytes                                  *)
GcmPlaintext(key, iv, ciphertext) ==
  IF ciphertext.body.key = KeyBytes(key)
       /\ ciphertext.body.iv = <<iv.body, iv.mask, iv.len>>
    THEN [kind |-> "utf8", len |-> ciphertext.len,
          body |-> ciphertext.body.pt, mask |-> ciphertext.mask]
    ELSE [kind |-> "utf8", len |-> ciphertext.len,
          body |-> <<"garbage">>, mask |-> {}]

(* tag lengths decipher.setAuthTag accepts for GCM *)
ValidTagLengths == {4, 8, 12, 13, 14, 15, 16}

Thrown(message) == [ok |-> FALSE, message |-> message, data |-> NoData]
Returned(data) == [ok |-> TRUE, message |-> "", data |-> data]

EncryptionFailed == "Encryption operation failed"
AuthenticationFailed == "Decryption failed: Invalid key or tampered data"
DecryptionFailed == "Decryption operation failed"

NoBytes == [kind |-> "none", len |-> 0, body |-> <<>>, mask |-> {}]
NoEncrypted == [ciphertext |-> NoBytes, iv |-> NoBytes, tag |-> NoBytes]

(* encrypt that returns the plaintext bytes as the ciphertext *)
encryptNull(data, key, r) ==
  LET iv == RandomIV(r)
      plaintext == JSONstringify(data)
  IN  IF plaintext = NoText
        THEN [ok |-> FALSE, message |-> EncryptionFailed, value |-> NoEncrypted]
        ELSE LET ciphertext == Utf8Buffer(plaintext)
             IN  [ok |-> TRUE, message |-> "",
                  value |-> [ciphertext |-> ciphertext, iv |-> iv,
                             tag |-> GcmTag(key, iv, ciphertext)]]

(* encrypt whose iv is computed from the length of the plaintext *)
encryptContentIV(data, key, r) ==
  LET plaintext == JSONstringify(data)
      iv == Bytes("iv", ivLength, <<TextLen(plaintext)>>)
  IN  IF plaintext = NoText
        THEN [ok |-> FALSE, message |-> EncryptionFailed, value |-> NoEncrypted]
        ELSE LET ciphertext == GcmCiphertext(key, iv, Utf8Buffer(plaintext))
             IN  [ok |-> TRUE, message |-> "",
                  value |-> [ciphertext |-> ciphertext, iv |-> iv,
                             tag |-> GcmTag(key, iv, ciphertext)]]

(* EncryptionService.encrypt(data, key) with the iv randomBytes returned *)
encrypt(data, key, r) ==
  LET iv == RandomIV(r)
      plaintext == JSONstringify(data)
  IN  IF plaintext = NoText
        THEN \* Buffer.from(undefined, 'utf8') throws a TypeError
             [ok |-> FALSE, message |-> EncryptionFailed, value |-> NoEncrypted]
        ELSE LET ciphertext == GcmCiphertext(key, iv, Utf8Buffer(plaintext))
             IN  [ok |-> TRUE, message |-> "",
                  value |-> [ciphertext |-> ciphertext, iv |-> iv,
                             tag |-> GcmTag(key, iv, ciphertext)]]

(* decipher.final(): the tag given to setAuthTag verifies *)
TagVerifies(ciphertext, iv, tag, key) ==
  /\ tag.kind = "tag"
  /\ tag.mask = {}
  /\ tag.body = GcmTag(key, iv, ciphertext).body

(* decrypt that releases the plaintext without verifying the tag *)
decryptUnauthenticated(ciphertext, iv, tag, key) ==
  LET plaintextBuffer == GcmPlaintext(key, iv, ciphertext)
  IN  IF plaintextBuffer.mask = {} /\ plaintextBuffer.body # <<"garbage">>
        THEN Returned(JSONparse(plaintextBuffer.body))
        ELSE Returned(Corrupt)

(* decrypt whose error tells a wrong key from tampered data *)
decryptTellsCause(ciphertext, iv, tag, key) ==
  IF iv.len = 0 \/ tag.len \notin ValidTagLengths
    THEN Thrown(DecryptionFailed)
    ELSE IF ~TagVerifies(ciphertext, iv, tag, key)
      THEN IF ciphertext.body.key # KeyBytes(key)
             THEN Thrown("Decryption failed: Invalid key")
             ELSE Thrown(AuthenticationFailed)
      ELSE LET plaintextBuffer == GcmPlaintext(key, iv, ciphertext)
           IN  IF plaintextBuffer.mask = {} /\ plaintextBuffer.body # <<"garbage">>
                 THEN Returned(JSONparse(plaintextBuffer.body))
                 ELSE Returned(Corrupt)

(* EncryptionService.decrypt(ciphertext, iv, tag, key) *)
decrypt(ciphertext, iv, tag, key) ==
  IF iv.len = 0 \/ tag.len \notin ValidTagLengths
    THEN Thrown(DecryptionFailed)
    ELSE IF ~TagVerifies(ciphertext, iv, tag, key)
      THEN Thrown(AuthenticationFailed)
      ELSE LET plaintextBuffer == GcmPlaintext(key, iv, ciphertext)
           IN  IF plaintextBuffer.mask = {} /\ plaintextBuffer.body # <<"garbage">>
                 THEN Returned(JSONparse(plaintextBuffer.body))
                 ELSE Returned(Corrupt)

(* serialize that stores the tag where the iv belongs *)
serializeSwapped(encryptedData) ==
  [ciphertext |-> toBase64(encryptedData.ciphertext),
   iv |-> toBase64(encryptedData.tag),
   tag |-> toBase64(encryptedData.iv)]

(* EncryptionService.serialize / deserialize *)
serialize(encryptedData) ==
  [ciphertext |-> toBase64(encryptedData.ciphertext),
   iv |-> toBase64(encryptedData.iv),
   tag |-> toBase64(encryptedData.tag)]

deserialize(serializedData) ==
  [ciphertext |-> fromBase64(serializedData.ciphertext),
   iv |-> fromBase64(serializedData.iv),
   tag |-> fromBase64(serializedData.tag)]

(***************************************************************************)
(* State                                                                   *)
(***************************************************************************)
VARIABLES
  masterKey,         \* the masterKey argument the constructor was called with
  masterKeyBuffer,   \* KeyManager: the key material, or "zero" once filled with 0
  currentVersion,    \* KeyManager.currentVersion
  previousVersion,   \* KeyManager.previousVersion (NoVersion is null)
  currentKey,        \* KeyManager.currentKey
  previousKey,       \* KeyManager.previousKey (NoKey is null)
  discarded,         \* key objects no field refers to any more, as they were left
  rotationTimer,     \* KeyManager.rotationTimer: "armed" or "null"
  timerDue,          \* the instant the armed interval timer fires next
  lastRotationTime,  \* KeyManager.lastRotationTime
  storage,           \* DataStore.storage: id -> record
  nextId,            \* the ids crypto.randomUUID() has handed out so far
  now,               \* the clock (new Date())
  process,           \* "running", or "crashed" after an uncaught exception
  result,            \* what the last handler returned or threw
  written,           \* history: id -> the payload and version store() was called with
  tampers,           \* history: number of bit flips applied to the store
  tickStartVersion,  \* history: currentVersion when the clock last advanced
  forcedThisTick,    \* history: forceRotation calls since the clock last advanced
  timerThisTick,     \* history: timer callbacks since the clock last advanced
  ivLog,             \* what direct calls of EncryptionService.encrypt returned
  rotating           \* the rotateKey invocations in progress, with their position

keyVars == <<masterKey, masterKeyBuffer, currentVersion, previousVersion,
             currentKey, previousKey, discarded, lastRotationTime>>
timerVars == <<rotationTimer, timerDue>>
storeVars == <<storage, nextId, written>>
tickVars == <<tickStartVersion, forcedThisTick, timerThisTick>>
callVars == <<ivLog, rotating>>
vars == <<keyVars, timerVars, storeVars, tickVars, callVars, now, process, result,
          tampers>>

(***************************************************************************)
(* Results of handlers                                                     *)
(***************************************************************************)
RecordNotFound == "Record not found"
KeyVersionExpired == "Key version is no longer supported"
KeyNotAvailable == "Decryption key not available"
StoreFailed == "Failed to store data"
MissingData == "Missing required field: data"
RotationFailed == "key derivation failed"
InvalidMasterKey == "Master key must be 64 hex characters (32 bytes)"

(* an Error: the text, and the numbers the key-version message embeds *)
Message(text, version, current, previous) ==
  [text |-> text, version |-> version, current |-> current, previous |-> previous]
Plain(text) == Message(text, 0, 0, 0)

Outcome(op, ok, message, id, data, keyVersion, timestamp, decryptCalled) ==
  [op |-> op, ok |-> ok, message |-> message, id |-> id, data |-> data,
   keyVersion |-> keyVersion, timestamp |-> timestamp,
   decryptCalled |-> decryptCalled]

Throws(op, message, id, decryptCalled) ==
  Outcome(op, FALSE, message, id, NoData, 0, 0, decryptCalled)

(***************************************************************************)
(* KeyManager                                                              *)
(***************************************************************************)
(* KeyManager.getCurrentKey *)
getCurrentKey == [key |-> currentKey, version |-> currentVersion]

(* getKeyByVersion that also serves the previous key for older versions *)
getKeyByVersionOlder(version) ==
  IF version = currentVersion
    THEN currentKey
    ELSE IF version <= previousVersion /\ previousKey # NoKey
      THEN previousKey
      ELSE NoKey

(* getKeyByVersion that answers with the current key for the previous *)
(* version too                                                         *)
getKeyByVersionAlwaysCurrent(version) ==
  IF version = currentVersion \/ (version = previousVersion /\ previousKey # NoKey)
    THEN currentKey
    ELSE NoKey

(* getKeyByVersion that serves the current key only *)
getKeyByVersionCurrentOnly(version) ==
  IF version = currentVersion THEN currentKey ELSE NoKey

(* KeyManager.getKeyByVersion *)
getKeyByVersion(version) ==
  IF version = currentVersion
    THEN currentKey
    ELSE IF version = previousVersion /\ previousKey # NoKey
      THEN previousKey
      ELSE NoKey

(* isVersionSupported that accepts every version up to the current one *)
isVersionSupportedAnyOld(version) ==
  version >= 1 /\ version <= currentVersion

(* isVersionSupported without the check that a previous key exists *)
isVersionSupportedNullPrevious(version) ==
  \/ version = currentVersion
  \/ version = previousVersion

(* KeyManager.isVersionSupported *)
isVersionSupported(version) ==
  \/ version = currentVersion
  \/ (version = previousVersion /\ previousKey # NoKey)

(* getKeyInfo that also reports the current key *)
getKeyInfoWithKey ==
  [currentVersion |-> currentVersion,
   previousVersion |-> previousVersion,
   lastRotationTime |-> lastRotationTime,
   nextRotationTime |-> lastRotationTime + rotationIntervalMs,
   currentKey |-> currentKey]

(* KeyManager.getKeyInfo *)
getKeyInfo ==
  [currentVersion |-> currentVersion,
   previousVersion |-> previousVersion,
   lastRotationTime |-> lastRotationTime,
   nextRotationTime |-> lastRotationTime + rotationIntervalMs]

(* rotateKey that leaves the previous key slot as it was *)
rotateKeyForgetting(salt, derived) ==
  /\ previousKey' = previousKey
  /\ previousVersion' = currentVersion
  /\ currentVersion' = currentVersion + 1
  /\ IF derived
       THEN /\ currentKey' = hkdfSync(masterKeyBuffer, salt, currentVersion + 1)
            /\ lastRotationTime' = now
       ELSE UNCHANGED <<currentKey, lastRotationTime>>
  /\ discarded' = discarded \cup ({previousKey} \ {NoKey, currentKey})
  /\ UNCHANGED <<masterKey, masterKeyBuffer>>

(* rotateKey with the version counter advanced twice *)
rotateKeySkipping(salt, derived) ==
  /\ previousKey' = currentKey
  /\ previousVersion' = currentVersion
  /\ currentVersion' = currentVersion + 2
  /\ IF derived
       THEN /\ currentKey' = hkdfSync(masterKeyBuffer, salt, currentVersion + 2)
            /\ lastRotationTime' = now
       ELSE UNCHANGED <<currentKey, lastRotationTime>>
  /\ discarded' = discarded \cup ({previousKey} \ {NoKey, currentKey})
  /\ UNCHANGED <<masterKey, masterKeyBuffer>>

(* KeyManager.rotateKey; derived is FALSE when crypto.randomBytes or *)
(* crypto.hkdfSync throws                                            *)
rotateKey(salt, derived) ==
  /\ previousKey' = currentKey
  /\ previousVersion' = currentVersion
  /\ currentVersion' = currentVersion + 1
  /\ IF derived
       THEN /\ currentKey' = hkdfSync(masterKeyBuffer, salt, currentVersion + 1)
            /\ lastRotationTime' = now
       ELSE UNCHANGED <<currentKey, lastRotationTime>>
  /\ discarded' = discarded \cup ({previousKey} \ {NoKey, currentKey})
  /\ UNCHANGED <<masterKey, masterKeyBuffer>>

(***************************************************************************)
(* DataStore                                                               *)
(***************************************************************************)
Ids == 1..MaxRecords

(* the record DataStore.store builds *)
StoredRecord(id, encryptedData, keyVersion) ==
  [id |-> id, keyVersion |-> keyVersion,
   ciphertext |-> encryptedData.ciphertext,
   iv |-> encryptedData.iv,
   tag |-> encryptedData.tag,
   timestamp |-> now,
   metadata |-> <<>>]

(* DataStore.getStats; oldestRecord is -1 for null *)
storeStats ==
  LET versions == {storage[id].keyVersion : id \in DOMAIN storage}
      times == {storage[id].timestamp : id \in DOMAIN storage}
  IN  [totalRecords |-> Cardinality(DOMAIN storage),
       recordsByVersion |->
         [v \in versions |->
            Cardinality({id \in DOMAIN storage : storage[id].keyVersion = v})],
       oldestRecord |->
         IF times = {} THEN -1 ELSE CHOOSE t \in times : \A u \in times : t <= u]

(***************************************************************************)
(* VaultService                                                            *)
(***************************************************************************)
(* VaultService.getStats *)
getStats == [keyInfo |-> getKeyInfo, storeStats |-> storeStats]

(* retrieve that decrypts with the current key before looking at the version *)
retrieveDecryptFirst(id) ==
  IF id \notin DOMAIN storage
    THEN Throws("retrieve", Plain(RecordNotFound), id, FALSE)
    ELSE LET record == storage[id]
             encryptedData == deserialize(record)
             decrypted == decrypt(encryptedData.ciphertext, encryptedData.iv,
                                  encryptedData.tag, currentKey)
         IN  IF decrypted.ok
               THEN Outcome("retrieve", TRUE, Plain(""), id, decrypted.data,
                            record.keyVersion, record.timestamp, TRUE)
               ELSE Throws("retrieve", Plain(decrypted.message), id, TRUE)

(* retrieve that throws an error of its own when decrypt fails *)
retrieveWrapping(id) ==
  IF id \notin DOMAIN storage
    THEN Throws("retrieve", Plain(RecordNotFound), id, FALSE)
    ELSE LET record == storage[id] IN
      IF ~isVersionSupported(record.keyVersion)
        THEN Throws("retrieve",
                    Message(KeyVersionExpired, record.keyVersion,
                            getCurrentKey.version, getKeyInfo.previousVersion),
                    id, FALSE)
        ELSE LET encryptedData == deserialize(record)
                 decrypted == decrypt(encryptedData.ciphertext, encryptedData.iv,
                                      encryptedData.tag,
                                      getKeyByVersion(record.keyVersion))
             IN  IF decrypted.ok
                   THEN Outcome("retrieve", TRUE, Plain(""), id, decrypted.data,
                                record.keyVersion, record.timestamp, TRUE)
                   ELSE Throws("retrieve", Plain("Failed to retrieve data"), id, TRUE)

(* VaultService.retrieve(id): what it returns or throws in this state *)
retrieve(id) ==
  IF id \notin DOMAIN storage
    THEN Throws("retrieve", Plain(RecordNotFound), id, FALSE)
    ELSE LET record == storage[id] IN
      IF ~isVersionSupported(record.keyVersion)
        THEN Throws("retrieve",
                    Message(KeyVersionExpired, record.keyVersion,
                            getCurrentKey.version, getKeyInfo.previousVersion),
                    id, FALSE)
        ELSE LET key == getKeyByVersion(record.keyVersion) IN
          IF key = NoKey
            THEN Throws("retrieve", Plain(KeyNotAvailable), id, FALSE)
            ELSE LET encryptedData == deserialize(record)
                     decrypted == decrypt(encryptedData.ciphertext, encryptedData.iv,
                                          encryptedData.tag, key)
                 IN  IF decrypted.ok
                       THEN Outcome("retrieve", TRUE, Plain(""), id, decrypted.data,
                                    record.keyVersion, record.timestamp, TRUE)
                       ELSE Throws("retrieve", Plain(decrypted.message), id, TRUE)

(* store that writes a record before it knows that encryption succeeded *)
StoreKeepingFailed(data, r) ==
  /\ process = "running"
  /\ nextId <= MaxRecords
  /\ LET current == getCurrentKey
         encryptedData == encrypt(data, current.key, r)
     IN  /\ storage' = storage @@
                (nextId :> StoredRecord(nextId, serialize(encryptedData.value),
                                        current.version))
         /\ nextId' = nextId + 1
         /\ written' = written @@
                (nextId :> [data |-> data, version |-> currentVersion])
         /\ result' = IF encryptedData.ok
                        THEN Outcome("store", TRUE, Plain(""), nextId, NoData,
                                     current.version, now, FALSE)
                        ELSE Throws("store", Plain(StoreFailed), 0, FALSE)
  /\ UNCHANGED <<keyVars, timerVars, tickVars, now, process, tampers, callVars>>

(* VaultService.store(data); r is the iv crypto.randomBytes returns *)
Store(data, r) ==
  /\ process = "running"
  /\ nextId <= MaxRecords
  /\ LET current == getCurrentKey
         encryptedData == encrypt(data, current.key, r)
     IN  IF encryptedData.ok
           THEN /\ storage' = storage @@
                      (nextId :> StoredRecord(nextId, serialize(encryptedData.value),
                                              current.version))
                /\ nextId' = nextId + 1
                /\ written' = written @@
                      (nextId :> [data |-> data, version |-> currentVersion])
                /\ result' = Outcome("store", TRUE, Plain(""), nextId, NoData,
                                     current.version, now, FALSE)
           ELSE /\ UNCHANGED storeVars
                /\ result' = Throws("store", Plain(StoreFailed), 0, FALSE)
  /\ UNCHANGED <<keyVars, timerVars, tickVars, now, process, tampers, callVars>>

(* EncryptionService.encrypt(data, key) called with the manager's current *)
(* key; what it returns is kept in ivLog                                   *)
Encrypt(data, r) ==
  /\ process = "running"
  /\ Len(ivLog) < MaxEncryptions
  /\ LET encryptedData == encrypt(data, getCurrentKey.key, r)
     IN  IF encryptedData.ok
           THEN /\ ivLog' = Append(ivLog, [key |-> KeyBytes(getCurrentKey.key),
                                           data |-> data,
                                           iv |-> encryptedData.value.iv])
                /\ result' = Outcome("encrypt", TRUE, Plain(""), 0, NoData,
                                     getCurrentKey.version, 0, FALSE)
           ELSE /\ UNCHANGED ivLog
                /\ result' = Throws("encrypt", Plain(EncryptionFailed), 0, FALSE)
  /\ UNCHANGED <<keyVars, timerVars, storeVars, tickVars, rotating, now, process,
                 tampers>>

(* retrieve that deletes the record when its key version has expired *)
RetrievePurging(id) ==
  /\ process = "running"
  /\ result' = retrieve(id)
  /\ storage' = IF id \in DOMAIN storage /\ ~isVersionSupported(storage[id].keyVersion)
                  THEN [i \in DOMAIN storage \ {id} |-> storage[i]]
                  ELSE storage
  /\ UNCHANGED <<keyVars, timerVars, nextId, written, tickVars, now, process,
                 tampers, callVars>>

(* VaultService.retrieve(id) called by a client *)
Retrieve(id) ==
  /\ process = "running"
  /\ result' = retrieve(id)
  /\ UNCHANGED <<keyVars, timerVars, storeVars, tickVars, now, process, tampers, callVars>>

(* forceRotation that is suppressed when the timer already rotated in this tick *)
ForceRotationCollapsed(salt, derived) ==
  /\ process = "running"
  /\ currentVersion < MaxVersion
  /\ IF timerThisTick > 0 THEN UNCHANGED keyVars ELSE rotateKey(salt, derived)
  /\ forcedThisTick' = forcedThisTick + 1
  /\ result' = IF derived
                 THEN Outcome("forceRotation", TRUE, Plain(""), 0, NoData, 0, 0, FALSE)
                 ELSE Throws("forceRotation", Plain(RotationFailed), 0, FALSE)
  /\ UNCHANGED <<timerVars, storeVars, tickStartVersion, timerThisTick, now,
                 process, tampers, callVars>>

(* forceRotation that also deletes the records the new key pair cannot read *)
ForceRotationPurging(salt, derived) ==
  /\ process = "running"
  /\ currentVersion < MaxVersion
  /\ rotateKey(salt, derived)
  /\ forcedThisTick' = forcedThisTick + 1
  /\ storage' = [id \in {i \in DOMAIN storage : storage[i].keyVersion >= currentVersion}
                   |-> storage[id]]
  /\ result' = IF derived
                 THEN Outcome("forceRotation", TRUE, Plain(""), 0, NoData, 0, 0, FALSE)
                 ELSE Throws("forceRotation", Plain(RotationFailed), 0, FALSE)
  /\ UNCHANGED <<timerVars, nextId, written, tickStartVersion, timerThisTick, now,
                 process, tampers, callVars>>

(* VaultService.forceRotation -> KeyManager.forceRotation -> rotateKey *)
ForceRotation(salt, derived) ==
  /\ process = "running"
  /\ currentVersion < MaxVersion
  /\ rotateKey(salt, derived)
  /\ forcedThisTick' = forcedThisTick + 1
  /\ result' = IF derived
                 THEN Outcome("forceRotation", TRUE, Plain(""), 0, NoData, 0, 0, FALSE)
                 ELSE Throws("forceRotation", Plain(RotationFailed), 0, FALSE)
  /\ UNCHANGED <<timerVars, storeVars, tickStartVersion, timerThisTick, now,
                 process, tampers, callVars>>

(* a timer callback that runs one time unit before the interval has elapsed *)
TimerRotationEarly(salt, derived) ==
  /\ process = "running"
  /\ rotationTimer = "armed"
  /\ now + 1 >= timerDue
  /\ currentVersion < MaxVersion
  /\ rotateKey(salt, derived)
  /\ timerDue' = timerDue + rotationIntervalMs
  /\ timerThisTick' = timerThisTick + 1
  /\ process' = IF derived THEN "running" ELSE "crashed"
  /\ result' = IF derived
                 THEN Outcome("timer", TRUE, Plain(""), 0, NoData, 0, 0, FALSE)
                 ELSE Throws("timer", Plain(RotationFailed), 0, FALSE)
  /\ UNCHANGED <<rotationTimer, storeVars, tickStartVersion, forcedThisTick, now,
                 tampers, callVars>>

(* the setInterval callback of _startRotation; an exception it lets escape *)
(* is uncaught and ends the process                                        *)
TimerRotation(salt, derived) ==
  /\ process = "running"
  /\ rotationTimer = "armed"
  /\ now >= timerDue
  /\ currentVersion < MaxVersion
  /\ rotateKey(salt, derived)
  /\ timerDue' = timerDue + rotationIntervalMs
  /\ timerThisTick' = timerThisTick + 1
  /\ process' = IF derived THEN "running" ELSE "crashed"
  /\ result' = IF derived
                 THEN Outcome("timer", TRUE, Plain(""), 0, NoData, 0, 0, FALSE)
                 ELSE Throws("timer", Plain(RotationFailed), 0, FALSE)
  /\ UNCHANGED <<rotationTimer, storeVars, tickStartVersion, forcedThisTick, now,
                 tampers, callVars>>

(* Buffer.isBuffer(key) && key.fill(0), as KeyManager.destroy applies it *)
ZeroIfBuffer(key) ==
  IF key # NoKey /\ key.type = "Buffer" THEN [key EXCEPT !.zeroed = TRUE] ELSE key

(* destroy that stops at KeyManager.destroy and leaves the data store alone *)
DestroyKeysOnly ==
  /\ process = "running"
  /\ rotationTimer' = "null"
  /\ currentKey' = ZeroIfBuffer(currentKey)
  /\ previousKey' = ZeroIfBuffer(previousKey)
  /\ masterKeyBuffer' = "zero"
  /\ result' = Outcome("destroy", TRUE, Plain(""), 0, NoData, 0, 0, FALSE)
  /\ UNCHANGED <<masterKey, currentVersion, previousVersion, discarded,
                 lastRotationTime, timerDue, storeVars, tickVars, now,
                 process, tampers, callVars>>

(* VaultService.destroy: KeyManager.destroy, then DataStore.clear *)
Destroy ==
  /\ process = "running"
  /\ rotationTimer' = "null"
  /\ currentKey' = ZeroIfBuffer(currentKey)
  /\ previousKey' = ZeroIfBuffer(previousKey)
  /\ masterKeyBuffer' = "zero"
  /\ storage' = <<>>
  /\ result' = Outcome("destroy", TRUE, Plain(""), 0, NoData, 0, 0, FALSE)
  /\ UNCHANGED <<masterKey, currentVersion, previousVersion, discarded,
                 lastRotationTime, timerDue, nextId, written, tickVars, now,
                 process, tampers, callVars>>

(* the clock advances; a due timer callback runs first *)
Tick ==
  /\ process = "running"
  /\ now < MaxTime
  /\ ~(rotationTimer = "armed" /\ now >= timerDue)
  /\ now' = now + 1
  /\ tickStartVersion' = currentVersion
  /\ forcedThisTick' = 0
  /\ timerThisTick' = 0
  /\ UNCHANGED <<keyVars, timerVars, storeVars, process, result, tampers, callVars>>

(* one bit of a stored field's bytes is flipped behind the vault's back *)
(* the bit positions tried on a field of len bytes: its first and last bit *)
FlipBits(len) == {0, 8 * len - 1}

Fields == {"ciphertext", "iv", "tag"}

FlipStored(record, field, bit) ==
  CASE field = "ciphertext" ->
         [record EXCEPT !.ciphertext = toBase64(FlipBit(fromBase64(@), bit))]
    [] field = "iv" ->
         [record EXCEPT !.iv = toBase64(FlipBit(fromBase64(@), bit))]
    [] field = "tag" ->
         [record EXCEPT !.tag = toBase64(FlipBit(fromBase64(@), bit))]

Tamper(id, field, bit) ==
  /\ process = "running"
  /\ tampers < MaxTampers
  /\ id \in DOMAIN storage
  /\ bit \in FlipBits(fromBase64(storage[id][field]).len)
  /\ storage' = [storage EXCEPT ![id] = FlipStored(@, field, bit)]
  /\ tampers' = tampers + 1
  /\ UNCHANGED <<keyVars, timerVars, nextId, written, tickVars, callVars, now,
                 process, result>>

(* a stored field is cut down to its first len bytes behind the vault's back *)
TruncateBytes(buf, len) ==
  [buf EXCEPT !.len = len, !.mask = {bit \in @ : bit < 8 * len}]

(* the lengths tried on a field *)
TruncatedLengths(field) ==
  CASE field = "ciphertext" -> {1}
    [] field = "iv" -> {0, 11}
    [] field = "tag" -> {3, 12, 15}

TruncateStored(record, field, len) ==
  CASE field = "ciphertext" ->
         [record EXCEPT !.ciphertext = toBase64(TruncateBytes(fromBase64(@), len))]
    [] field = "iv" ->
         [record EXCEPT !.iv = toBase64(TruncateBytes(fromBase64(@), len))]
    [] field = "tag" ->
         [record EXCEPT !.tag = toBase64(TruncateBytes(fromBase64(@), len))]

Truncate(id, field, len) ==
  /\ process = "running"
  /\ tampers < MaxTampers
  /\ id \in DOMAIN storage
  /\ len < fromBase64(storage[id][field]).len
  /\ storage' = [storage EXCEPT ![id] = TruncateStored(@, field, len)]
  /\ tampers' = tampers + 1
  /\ UNCHANGED <<keyVars, timerVars, nextId, written, tickVars, callVars, now,
                 process, result>>

(***************************************************************************)
(* Specification                                                           *)
(***************************************************************************)
(* a masterKey argument: a string of `chars` characters of which the first *)
(* `hex` are hexadecimal digits                                            *)
MasterKeyString(chars, hex) == [chars |-> chars, hex |-> hex]

ValidMasterKey == MasterKeyString(64, 64)

MasterKeys ==
  { ValidMasterKey,
    MasterKeyString(0, 0),       \* '' (or a missing environment variable)
    MasterKeyString(62, 62),     \* 31 bytes in hexadecimal
    MasterKeyString(64, 62) }    \* 64 characters, the last two not hexadecimal

(* the number of bytes Buffer.from(masterKey, 'hex') decodes: it stops at *)
(* the first pair that is not hexadecimal                                 *)
HexBytes(key) == key.hex \div 2

(* Buffer.from(masterKey, 'hex') *)
BufferFromHex(key) == IF HexBytes(key) = 32 THEN "secret" ELSE "short secret"

(* the state new VaultService(masterKey, rotationIntervalMs) leaves at     *)
(* time 0: the KeyManager constructor (check of the argument,              *)
(* _generateInitialKey, _startRotation), or its exception, which nothing   *)
(* catches                                                                 *)
Constructed(key) ==
  /\ masterKey = key
  /\ discarded = {}
  /\ ivLog = <<>>
  /\ rotating = <<>>
  /\ lastRotationTime = 0
  /\ storage = <<>>
  /\ nextId = 1
  /\ now = 0
  /\ written = <<>>
  /\ tampers = 0
  /\ forcedThisTick = 0
  /\ timerThisTick = 0
  /\ previousVersion = NoVersion
  /\ previousKey = NoKey
  /\ IF key.chars = 0 \/ key.chars # 64
       THEN /\ masterKeyBuffer = "unset"
            /\ currentVersion = 0
            /\ tickStartVersion = 0
            /\ currentKey = NoKey
            /\ rotationTimer = "null"
            /\ timerDue = 0
            /\ process = "crashed"
            /\ result = Throws("constructor", Plain(InvalidMasterKey), 0, FALSE)
       ELSE /\ masterKeyBuffer = BufferFromHex(key)
            /\ currentVersion = 1
            /\ tickStartVersion = 1
            /\ \E salt \in Salts : currentKey = hkdfSync(BufferFromHex(key), salt, 1)
            /\ rotationTimer = "armed"
            /\ timerDue = rotationIntervalMs
            /\ process = "running"
            /\ result = Outcome("constructor", TRUE, Plain(""), 0, NoData, 0, 0, FALSE)

(* the vault constructed with a valid master key *)
Init == Constructed(ValidMasterKey)

Next ==
  \/ \E data \in Payloads, r \in IVs : Store(data, r)
  \/ \E id \in Ids : Retrieve(id)
  \/ \E salt \in Salts, derived \in BOOLEAN : ForceRotation(salt, derived)
  \/ \E salt \in Salts, derived \in BOOLEAN : TimerRotation(salt, derived)
  \/ Destroy
  \/ Tick

(* the vault as the program runs it *)
Spec == Init /\ [][Next]_vars

(* the vault with a store whose bytes can be corrupted between requests *)
TamperNext ==
  \/ \E data \in Payloads, r \in IVs : Store(data, r)
  \/ \E id \in Ids : Retrieve(id)
  \/ \E salt \in Salts, derived \in BOOLEAN : ForceRotation(salt, derived)
  \/ \E id \in DOMAIN storage, field \in Fields :
       \E bit \in FlipBits(fromBase64(storage[id][field]).len) : Tamper(id, field, bit)

TamperSpec == Init /\ [][TamperNext]_vars

(* the vault with a store whose fields can be shortened between requests *)
LengthNext ==
  \/ \E data \in Payloads, r \in IVs : Store(data, r)
  \/ \E id \in Ids : Retrieve(id)
  \/ \E salt \in Salts, derived \in BOOLEAN : ForceRotation(salt, derived)
  \/ \E id \in DOMAIN storage, field \in Fields :
       \E len \in TruncatedLengths(field) : Truncate(id, field, len)

LengthSpec == Init /\ [][LengthNext]_vars

(***************************************************************************)
(* rotateKey statement by statement. rotating lists the invocations that   *)
(* were triggered and have not completed: "queued" ones wait on the event  *)
(* loop, the others are at the statement they execute next. rotateKey is   *)
(* synchronous (no await, no callback), so the event loop starts a         *)
(* callback or handler only when no other one is on the call stack.        *)
(***************************************************************************)
Frame(trigger, step, from) == [trigger |-> trigger, step |-> step, from |-> from]

WithoutFrame(i) ==
  [j \in 1..(Len(rotating) - 1) |-> IF j < i THEN rotating[j] ELSE rotating[j + 1]]

InProgress == {i \in DOMAIN rotating : rotating[i].step # "queued"}

(* the interval timer comes due: its callback is queued on the event loop *)
TimerDue ==
  /\ process = "running"
  /\ rotationTimer = "armed"
  /\ now >= timerDue
  /\ Len(rotating) < MaxQueued
  /\ timerDue' = timerDue + rotationIntervalMs
  /\ rotating' = Append(rotating, Frame("timer", "queued", 0))
  /\ UNCHANGED <<keyVars, rotationTimer, storeVars, tickVars, ivLog, now, process,
                 result, tampers>>

(* a forceRotation request arrives: its handler is queued on the event loop *)
ForceRequested ==
  /\ process = "running"
  /\ Len(rotating) < MaxQueued
  /\ rotating' = Append(rotating, Frame("force", "queued", 0))
  /\ UNCHANGED <<keyVars, timerVars, storeVars, tickVars, ivLog, now, process,
                 result, tampers>>

(* a queued rotateKey is entered although another one has not returned *)
BeginRotationReentrant(i) ==
  /\ process = "running"
  /\ rotating[i].step = "queued"
  /\ currentVersion < MaxVersion
  /\ rotating' = [rotating EXCEPT ![i] = Frame(rotating[i].trigger, "move",
                                               currentVersion)]
  /\ UNCHANGED <<keyVars, timerVars, storeVars, tickVars, ivLog, now, process,
                 result, tampers>>

(* the event loop enters the rotateKey queued first, the call stack empty *)
BeginRotation(i) ==
  /\ process = "running"
  /\ rotating[i].step = "queued"
  /\ i = 1
  /\ InProgress = {}
  /\ currentVersion < MaxVersion
  /\ rotating' = [rotating EXCEPT ![i] = Frame(rotating[i].trigger, "move",
                                               currentVersion)]
  /\ UNCHANGED <<keyVars, timerVars, storeVars, tickVars, ivLog, now, process,
                 result, tampers>>

(* rotateKey: previousKey = currentKey; previousVersion = currentVersion *)
MoveStep(i) ==
  /\ process = "running"
  /\ rotating[i].step = "move"
  /\ previousKey' = currentKey
  /\ previousVersion' = currentVersion
  /\ discarded' = discarded \cup ({previousKey} \ {NoKey, currentKey})
  /\ rotating' = [rotating EXCEPT ![i].step = "increment"]
  /\ UNCHANGED <<masterKey, masterKeyBuffer, currentVersion, currentKey,
                 lastRotationTime, timerVars, storeVars, tickVars, ivLog, now,
                 process, result, tampers>>

(* rotateKey: currentVersion++ *)
IncrementStep(i) ==
  /\ process = "running"
  /\ rotating[i].step = "increment"
  /\ currentVersion' = currentVersion + 1
  /\ rotating' = [rotating EXCEPT ![i].step = "derive"]
  /\ UNCHANGED <<masterKey, masterKeyBuffer, previousVersion, currentKey,
                 previousKey, discarded, lastRotationTime, timerVars, storeVars,
                 tickVars, ivLog, now, process, result, tampers>>

(* rotateKey: salt, info, currentKey = hkdfSync(...); a throw ends the *)
(* invocation, and the process when the timer made it                  *)
DeriveStep(i, salt, derived) ==
  /\ process = "running"
  /\ rotating[i].step = "derive"
  /\ IF derived
       THEN /\ currentKey' = hkdfSync(masterKeyBuffer, salt, currentVersion)
            /\ rotating' = [rotating EXCEPT ![i].step = "stamp"]
            /\ UNCHANGED <<process, result>>
       ELSE /\ rotating' = WithoutFrame(i)
            /\ process' = IF rotating[i].trigger = "timer" THEN "crashed" ELSE "running"
            /\ result' = Throws(IF rotating[i].trigger = "timer"
                                  THEN "timer" ELSE "forceRotation",
                                Plain(RotationFailed), 0, FALSE)
            /\ UNCHANGED currentKey
  /\ UNCHANGED <<masterKey, masterKeyBuffer, currentVersion, previousVersion,
                 previousKey, discarded, lastRotationTime, timerVars, storeVars,
                 tickVars, ivLog, now, tampers>>

(* rotateKey: lastRotationTime = new Date(), and the return *)
StampStep(i) ==
  /\ process = "running"
  /\ rotating[i].step = "stamp"
  /\ lastRotationTime' = now
  /\ rotating' = WithoutFrame(i)
  /\ result' = Outcome(IF rotating[i].trigger = "timer" THEN "timer" ELSE "forceRotation",
                       TRUE, Plain(""), 0, NoData, 0, 0, FALSE)
  /\ UNCHANGED <<masterKey, masterKeyBuffer, currentVersion, previousVersion,
                 currentKey, previousKey, discarded, timerVars, storeVars,
                 tickVars, ivLog, now, process, tampers>>

(* the key manager with its rotations executed statement by statement *)
StepNext ==
  \/ TimerDue
  \/ ForceRequested
  \/ Tick
  \/ \E i \in DOMAIN rotating : BeginRotation(i)
  \/ \E i \in DOMAIN rotating : MoveStep(i)
  \/ \E i \in DOMAIN rotating : IncrementStep(i)
  \/ \E i \in DOMAIN rotating, salt \in Salts, derived \in BOOLEAN :
       DeriveStep(i, salt, derived)
  \/ \E i \in DOMAIN rotating : StampStep(i)

StepSpec == Init /\ [][StepNext]_vars

(* VaultService.store(data) with its two readings of the clock told apart: *)
(* DataStore.store reads it for the record's timestamp, VaultService.store  *)
(* reads it again for the timestamp it returns, elapsed units later. Store  *)
(* is the case elapsed = 0.                                                 *)
StoreTimed(data, r, elapsed) ==
  /\ process = "running"
  /\ nextId <= MaxRecords
  /\ now + elapsed <= MaxTime
  /\ now' = now + elapsed
  /\ LET current == getCurrentKey
         encryptedData == encrypt(data, current.key, r)
     IN  IF encryptedData.ok
           THEN /\ storage' = storage @@
                      (nextId :> StoredRecord(nextId, serialize(encryptedData.value),
                                              current.version))
                /\ nextId' = nextId + 1
                /\ written' = written @@
                      (nextId :> [data |-> data, version |-> currentVersion])
                /\ result' = Outcome("store", TRUE, Plain(""), nextId, NoData,
                                     current.version, now + elapsed, FALSE)
           ELSE /\ UNCHANGED storeVars
                /\ result' = Throws("store", Plain(StoreFailed), 0, FALSE)
  /\ UNCHANGED <<keyVars, timerVars, tickVars, process, tampers, callVars>>

(* the vault on a clock that can advance while store runs *)
ClockNext ==
  \/ \E data \in Payloads, r \in IVs, elapsed \in {0, 1} : StoreTimed(data, r, elapsed)
  \/ \E id \in Ids : Retrieve(id)
  \/ \E salt \in Salts, derived \in BOOLEAN : ForceRotation(salt, derived)
  \/ \E salt \in Salts, derived \in BOOLEAN : TimerRotation(salt, derived)
  \/ Tick

ClockSpec == Init /\ [][ClockNext]_vars

(* the encryption service called repeatedly, between rotations *)
NonceNext ==
  \/ \E data \in Payloads, r \in IVs : Encrypt(data, r)
  \/ \E salt \in Salts, derived \in BOOLEAN : ForceRotation(salt, derived)

NonceSpec == Init /\ [][NonceNext]_vars

(* the vault constructed with any master key argument *)
ConstructInit == \E key \in MasterKeys : Constructed(key)

ConstructNext ==
  \/ \E data \in Payloads, r \in IVs : Store(data, r)
  \/ \E id \in Ids : Retrieve(id)
  \/ \E salt \in Salts, derived \in BOOLEAN : ForceRotation(salt, derived)
  \/ Destroy

ConstructSpec == ConstructInit /\ [][ConstructNext]_vars

(***************************************************************************)
(* HTTP layer: the status GET /api/vault/retrieve answers with             *)
(***************************************************************************)
retrieveStatus(outcome) ==
  IF outcome.ok THEN 200
  ELSE IF outcome.message.text = RecordNotFound THEN 404
  ELSE IF outcome.message.text = KeyVersionExpired THEN 410
  ELSE 500

(* the request bodies POST /api/vault/store receives: the data field, *)
(* undefined when the body has none                                    *)
Bodies == Payloads \cup {Prim("null", 0), Prim("number", 0)}

(* !data is false *)
Truthy(data) == data.obj \/ (data.t = "number" /\ data.n # 0)

(* POST /api/vault/store that stores whatever data it is given *)
PostStoreUnchecked(data, r) == Store(data, r)

(* POST /api/vault/store *)
PostStore(data, r) ==
  IF ~Truthy(data)
    THEN /\ process = "running"
         /\ result' = Throws("store", Plain(MissingData), 0, FALSE)
         /\ UNCHANGED <<keyVars, timerVars, storeVars, tickVars, now, process,
                        tampers, callVars>>
    ELSE Store(data, r)

(* the status POST /api/vault/store answers with *)
storeStatus(outcome) ==
  IF outcome.ok THEN 201
  ELSE IF outcome.message.text = MissingData THEN 400
  ELSE 500

(* GET /api/vault/retrieve/:id *)
GetRetrieve(id) == Retrieve(id)

(* POST /api/vault/rotate *)
PostRotate(salt, derived) == ForceRotation(salt, derived)

(* the server, with a store whose tags an adversary can alter between *)
(* requests                                                           *)
HttpNext ==
  \/ \E data \in Bodies, r \in IVs : PostStore(data, r)
  \/ \E id \in Ids : GetRetrieve(id)
  \/ \E salt \in Salts, derived \in BOOLEAN : PostRotate(salt, derived)
  \/ \E id \in DOMAIN storage :
       \E bit \in FlipBits(fromBase64(storage[id].tag).len) : Tamper(id, "tag", bit)

HttpSpec == Init /\ [][HttpNext]_vars

(***************************************************************************)
(* Properties                                                              *)
(***************************************************************************)
Versions == 0..(MaxVersion + 1)

RotationStep ==
  \/ \E salt \in Salts, derived \in BOOLEAN : ForceRotation(salt, derived)
  \/ \E salt \in Salts, derived \in BOOLEAN : TimerRotation(salt, derived)

FailedRotationStep ==
  \/ \E salt \in Salts : ForceRotation(salt, FALSE)
  \/ \E salt \in Salts : TimerRotation(salt, FALSE)

(* what JSON.stringify followed by JSON.parse makes of a payload *)
JsonRoundTrip(data) == JSONparse(JSONstringify(data))

(* number of bits in which the stored record differs from what store() wrote *)
FlippedBits(record) ==
  Cardinality(record.ciphertext.mask) + Cardinality(record.iv.mask)
    + Cardinality(record.tag.mask)

(* C1: the version starts at 1; whenever previous is populated,            *)
(* currentVersion = previousVersion + 1; the version never changes except  *)
(* by +1, and every rotation (forced or by the timer) increases it by      *)
(* exactly 1.                                                              *)
C1_RotationAdjacency ==
  /\ currentVersion = 1
  /\ [](previousKey # NoKey => currentVersion = previousVersion + 1)
  /\ [][/\ currentVersion' # currentVersion => currentVersion' = currentVersion + 1
        /\ RotationStep => currentVersion' = currentVersion + 1]_vars

C1_Witness ==
  /\ result.op = "timer"
  /\ result.ok
  /\ forcedThisTick = 1
  /\ currentVersion = 3
  /\ previousVersion = 2
  /\ previousKey # NoKey

(* C2 as stated: a record stored under version V, one rotation later,      *)
(* retrieves successfully with the original data and keyVersion V.         *)
C2_OneRotationSurvival ==
  \A id \in DOMAIN storage :
    written[id].version = currentVersion - 1 =>
      /\ retrieve(id).ok
      /\ retrieve(id).data = written[id].data
      /\ retrieve(id).keyVersion = written[id].version

(* C2 amended: a record stored under version V, one rotation later,        *)
(* retrieves successfully with keyVersion V and with the data as JSON      *)
(* carries it, which is the original data whenever stringify/parse         *)
(* reproduce it.                                                           *)
C2_OneRotationSurvivalJson ==
  \A id \in DOMAIN storage :
    written[id].version = currentVersion - 1 =>
      LET outcome == retrieve(id)
      IN  /\ outcome.ok
          /\ outcome.data = JsonRoundTrip(written[id].data)
          /\ (JsonRoundTrip(written[id].data) = written[id].data
                => outcome.data = written[id].data)
          /\ outcome.keyVersion = written[id].version
          /\ getKeyByVersion(written[id].version) = previousKey

C2_Witness ==
  /\ result.op = "retrieve"
  /\ result.ok
  /\ result.id \in DOMAIN storage
  /\ written[result.id].version = currentVersion - 1
  /\ result.keyVersion = previousVersion
  /\ result.data = written[result.id].data

(* C3: a record stored under version V, two rotations later, fails to      *)
(* retrieve with the key-version-expired error naming V, Current V+2 and   *)
(* Previous V+1.                                                           *)
C3_TwoRotationExpiry ==
  \A id \in DOMAIN storage :
    written[id].version = currentVersion - 2 =>
      LET outcome == retrieve(id)
      IN  /\ ~outcome.ok
          /\ outcome.message =
               Message(KeyVersionExpired, written[id].version,
                       written[id].version + 2, written[id].version + 1)

C3_Witness ==
  /\ result.op = "retrieve"
  /\ ~result.ok
  /\ result.id \in DOMAIN storage
  /\ written[result.id].version = currentVersion - 2
  /\ result.message = Message(KeyVersionExpired, 1, 3, 2)

FreshVault == currentVersion = 1 /\ previousKey = NoKey

(* C4 as stated: on a freshly initialised vault, retrieving the id         *)
(* store(P) returned yields data equal to P, for every P.                  *)
C4_RoundTrip ==
  \A id \in DOMAIN storage :
    FreshVault => retrieve(id).ok /\ retrieve(id).data = written[id].data

(* C4 amended: on a freshly initialised vault, retrieving the id store(P)  *)
(* returned yields JSON.parse(JSON.stringify(P)): P itself for every P     *)
(* that JSON reproduces, and not P otherwise.                              *)
C4_RoundTripJson ==
  \A id \in DOMAIN storage :
    FreshVault =>
      LET outcome == retrieve(id)
      IN  /\ outcome.ok
          /\ outcome.data = JsonRoundTrip(written[id].data)
          /\ (outcome.data = written[id].data
                <=> JsonRoundTrip(written[id].data) = written[id].data)

C4_Witness ==
  /\ FreshVault
  /\ result.op = "retrieve"
  /\ result.ok
  /\ result.id \in DOMAIN storage
  /\ result.data = written[result.id].data
  /\ result.data = Obj("number", 1)

(* C5 as stated: a rotation whose key derivation fails leaves the keys and *)
(* version numbers of the current/previous pair as they were.              *)
C5_FailedRotationKeepsPair ==
  [][FailedRotationStep =>
       UNCHANGED <<currentKey, previousKey, currentVersion, previousVersion>>]_vars

(* C6 as stated: a timer tick and a forceRotation triggered in the same    *)
(* tick advance the version by one.                                        *)
C6_TriggersCollapse ==
  (forcedThisTick >= 1 /\ timerThisTick >= 1) =>
    currentVersion = tickStartVersion + 1

(* C6 amended: triggers do not collapse; within one tick the version       *)
(* advances by one per trigger, so a timer tick and one forceRotation in   *)
(* the same tick advance it by two.                                        *)
C6_OneRotationPerTrigger ==
  currentVersion = tickStartVersion + forcedThisTick + timerThisTick

C6_Witness ==
  /\ forcedThisTick = 1
  /\ timerThisTick = 1
  /\ currentVersion = tickStartVersion + 2

(* C7 as stated: whenever a request can read the key state, the pair is a  *)
(* complete one: the current key is the key derived for currentVersion and *)
(* previous is empty or the key derived for currentVersion - 1.            *)
C7_NoTornPair ==
  process = "running" =>
    /\ currentKey.info = currentVersion
    /\ \/ (previousKey = NoKey /\ previousVersion = NoVersion)
       \/ (previousKey.info = previousVersion /\ previousVersion = currentVersion - 1)

(* C8: getKeyByVersion(v) returns a key exactly when v is currentVersion,  *)
(* or previousVersion with previous populated; at most two versions        *)
(* resolve; versions older than previous or newer than current never do.   *)
C8_KeyByVersion ==
  /\ \A v \in Versions :
       (getKeyByVersion(v) # NoKey) <=>
         (v = currentVersion \/ (v = previousVersion /\ previousKey # NoKey))
  /\ Cardinality({v \in Versions : getKeyByVersion(v) # NoKey}) <= 2
  /\ \A v \in Versions :
       (v > currentVersion \/ v < currentVersion - 1) => getKeyByVersion(v) = NoKey

C8_Witness ==
  /\ result.op = "retrieve"
  /\ result.ok
  /\ previousKey # NoKey
  /\ result.keyVersion = previousVersion
  /\ getKeyByVersion(previousVersion) = previousKey
  /\ getKeyByVersion(previousVersion - 1) = NoKey

(* C9: retrieve of an existing record with an unsupported keyVersion fails *)
(* with the key-version-expired error and never calls decrypt, also when   *)
(* the record was corrupted; that failure differs from 'Record not found'  *)
(* (unknown id) and from the authentication failure, in message and in     *)
(* HTTP status.                                                            *)
C9_VersionGateFirst ==
  \A id \in Ids :
    /\ id \notin DOMAIN storage =>
         /\ retrieve(id).message.text = RecordNotFound
         /\ retrieveStatus(retrieve(id)) = 404
    /\ (id \in DOMAIN storage /\ ~isVersionSupported(storage[id].keyVersion)) =>
         /\ ~retrieve(id).ok
         /\ ~retrieve(id).decryptCalled
         /\ retrieve(id).message.text = KeyVersionExpired
         /\ retrieve(id).message.text \notin {RecordNotFound, AuthenticationFailed}
         /\ retrieveStatus(retrieve(id)) = 410
    /\ retrieve(id).message.text = AuthenticationFailed =>
         /\ retrieve(id).decryptCalled
         /\ retrieveStatus(retrieve(id)) = 500

C9_Witness ==
  /\ result.op = "retrieve"
  /\ result.id \in DOMAIN storage
  /\ FlippedBits(storage[result.id]) = 1
  /\ ~isVersionSupported(storage[result.id].keyVersion)
  /\ result.message.text = KeyVersionExpired
  /\ ~result.decryptCalled

(* C10: a stored record with a supported key version of which one bit of   *)
(* the ciphertext, iv or tag was flipped fails to retrieve with the        *)
(* authentication failure; no data is returned.                            *)
C10_TamperDetected ==
  \A id \in DOMAIN storage :
    (isVersionSupported(storage[id].keyVersion) /\ FlippedBits(storage[id]) = 1) =>
      /\ ~retrieve(id).ok
      /\ retrieve(id).message.text = AuthenticationFailed
      /\ retrieve(id).data = NoData

C10_Witness ==
  /\ result.op = "retrieve"
  /\ result.id \in DOMAIN storage
  /\ isVersionSupported(storage[result.id].keyVersion)
  /\ FlippedBits(storage[result.id]) = 1
  /\ ~result.ok
  /\ result.message.text = AuthenticationFailed

(* C11 as stated: once destroy has run, the bytes of the current key, of   *)
(* the previous key if there is one, and of the root secret are all zero.  *)
C11_DestroyZeroesKeys ==
  result.op = "destroy" =>
    /\ currentKey.zeroed
    /\ (previousKey # NoKey => previousKey.zeroed)
    /\ masterKeyBuffer = "zero"

(* C12 as stated: a key that leaves the retained pair is zeroed, so every  *)
(* derived key ever created is retained as current/previous or zeroed.     *)
C12_DiscardedKeysZeroed ==
  \A key \in discarded : key.zeroed

(* C13: a successful initialize yields currentVersion 1 with a derived     *)
(* current key, no previous version and no previous key, and               *)
(* lastRotationTime equal to the time of initialization (0); in that state *)
(* version 1 is the only supported version: no other version, and not the  *)
(* null version, is supported.                                             *)
C13_InitializedState ==
  (result.op = "constructor" /\ result.ok) =>
    /\ currentVersion = 1
    /\ \E salt \in Salts : currentKey = hkdfSync(masterKeyBuffer, salt, 1)
    /\ previousVersion = NoVersion
    /\ previousKey = NoKey
    /\ lastRotationTime = 0
    /\ \A v \in Versions : isVersionSupported(v) <=> v = 1
    /\ ~isVersionSupported(NoVersion)

C13_Witness ==
  /\ result.op = "constructor"
  /\ result.ok
  /\ masterKey = ValidMasterKey
  /\ isVersionSupported(1)
  /\ previousVersion = NoVersion
  /\ getKeyByVersion(1) = currentKey

(* C14 as stated: whenever the master key given to initialize is not       *)
(* exactly 32 bytes of key material, initialize fails with the             *)
(* invalid-length error, no key is derived and no timer is started.        *)
C14_InvalidSecretRejected ==
  (result.op = "constructor" /\ HexBytes(masterKey) # 32) =>
    /\ ~result.ok
    /\ result.message.text = InvalidMasterKey
    /\ currentKey = NoKey
    /\ rotationTimer = "null"

(* C15 as stated: every store encrypts with the current key only: the      *)
(* keyVersion store returns, the keyVersion of the stored record and the   *)
(* version of the key that encrypted it all equal currentVersion at the    *)
(* call, and the key that encrypted it is not the previous key.            *)
C15_StoreUsesCurrentKey ==
  (result.op = "store" /\ result.ok) =>
    LET record == storage[result.id]
        ciphertext == fromBase64(record.ciphertext)
    IN  /\ result.keyVersion = currentVersion
        /\ record.keyVersion = currentVersion
        /\ ciphertext.body.key = KeyBytes(currentKey)
        /\ currentKey.info = currentVersion
        /\ (previousKey # NoKey => ciphertext.body.key # KeyBytes(previousKey))

(* rotations the timer has run, and rotations forced on demand, so far *)
TimerRotations == timerDue \div rotationIntervalMs - 1
ForcedRotations == (currentVersion - 1) - TimerRotations

Pristine(record) ==
  [record EXCEPT !.ciphertext.mask = {}, !.iv.mask = {}, !.tag.mask = {}]

(* every key the manager can have derived *)
DerivedKeys ==
  { hkdfSync(masterKeyBuffer, salt, v) : salt \in Salts, v \in 1..(MaxVersion + 1) }

(* the keys other than `key` to try a decryption with: those the manager *)
(* holds, and one it never held                                          *)
WrongKeys(key) ==
  ({currentKey, previousKey}
     \cup {hkdfSync(masterKeyBuffer, salt, MaxVersion + 1) : salt \in Salts})
    \ {NoKey, key}

(* the key a stored record was encrypted with *)
KeyOf(record) ==
  LET bytes == fromBase64(record.ciphertext).body.key
  IN  hkdfSync(bytes[1], bytes[2], bytes[3])

(* C17: for the same record, decrypt failing because of a wrong key and    *)
(* retrieve failing because bits of the stored ciphertext, iv or tag were  *)
(* flipped give the same outcome: the same error and no data.              *)
C17_FailureIndistinguishable ==
  \A id \in DOMAIN storage :
    (isVersionSupported(storage[id].keyVersion) /\ FlippedBits(storage[id]) >= 1) =>
      LET stored == deserialize(Pristine(storage[id]))
          byTamper == retrieve(id)
      IN  /\ KeyOf(storage[id]) \in DerivedKeys
          /\ WrongKeys(KeyOf(storage[id])) # {}
          /\ \A wrong \in WrongKeys(KeyOf(storage[id])) :
               LET byKey == decrypt(stored.ciphertext, stored.iv, stored.tag, wrong)
               IN  /\ ~byKey.ok
                   /\ ~byTamper.ok
                   /\ byKey.message = byTamper.message.text
                   /\ byKey.message = AuthenticationFailed
                   /\ byKey.data = byTamper.data
                   /\ byKey.data = NoData

C17_Witness ==
  /\ result.op = "retrieve"
  /\ result.id \in DOMAIN storage
  /\ storage[result.id].iv.mask # {}
  /\ storage[result.id].keyVersion = previousVersion
  /\ ~result.ok
  /\ result.data = NoData
  /\ LET stored == deserialize(Pristine(storage[result.id]))
     IN  decrypt(stored.ciphertext, stored.iv, stored.tag, currentKey).message
           = result.message.text

(* C18 as stated: a stored record whose iv is not 12 bytes long or whose   *)
(* tag is not 16 bytes long is never decrypted successfully, and fails     *)
(* with an error of its own, distinct from the authentication failure.     *)
C18_MalformedLengthRejected ==
  \A id \in DOMAIN storage :
    LET encryptedData == deserialize(storage[id])
    IN  ( /\ isVersionSupported(storage[id].keyVersion)
          /\ (encryptedData.iv.len # ivLength \/ encryptedData.tag.len # tagLength) )
        => /\ ~retrieve(id).ok
           /\ retrieve(id).message.text # AuthenticationFailed

RecordFields == {"id", "keyVersion", "ciphertext", "iv", "tag", "timestamp", "metadata"}

(* C19: every record in the data store holds only id, key version,         *)
(* ciphertext, iv, tag, timestamp and (empty) metadata; the numbers are    *)
(* the id, the version and the time, and no byte field is the plaintext    *)
(* passed to store, as bytes or as their base64 text.                      *)
C19_NoPlaintextPersisted ==
  \A id \in DOMAIN storage :
    LET record == storage[id]
        plaintextBuffer == Utf8Buffer(JSONstringify(written[id].data))
    IN  /\ DOMAIN record = RecordFields
        /\ record.metadata = <<>>
        /\ record.id = id
        /\ record.keyVersion = written[id].version
        /\ record.timestamp \in 0..now
        /\ \A field \in Fields :
             /\ fromBase64(record[field]).kind # "utf8"
             /\ fromBase64(record[field]) # plaintextBuffer
             /\ record[field] # toBase64(plaintextBuffer)

C19_Witness ==
  /\ result.op = "store"
  /\ result.ok
  /\ result.id \in DOMAIN storage
  /\ written[result.id].data = Obj("number", 1)
  /\ fromBase64(storage[result.id].ciphertext).kind = "ct"
  /\ fromBase64(storage[result.id].ciphertext).body.pt = JSONstringify(Obj("number", 1))

RetrieveErrors ==
  {RecordNotFound, KeyVersionExpired, KeyNotAvailable, AuthenticationFailed,
   DecryptionFailed}

(* C20: getKeyInfo and getStats return version numbers, counts and times   *)
(* only, and a failed retrieve throws one of the fixed error texts, the    *)
(* key-version text with the record's, the current and the previous        *)
(* version numbers: none of them carries a key or the master key.          *)
C20_NoKeyMaterialReported ==
  /\ DOMAIN getKeyInfo
       = {"currentVersion", "previousVersion", "lastRotationTime", "nextRotationTime"}
  /\ \A field \in DOMAIN getKeyInfo : getKeyInfo[field] \in Int
  /\ LET stats == getStats
     IN  /\ DOMAIN stats = {"keyInfo", "storeStats"}
         /\ stats.keyInfo = getKeyInfo
         /\ DOMAIN stats.storeStats = {"totalRecords", "recordsByVersion", "oldestRecord"}
         /\ stats.storeStats.totalRecords \in Nat
         /\ stats.storeStats.oldestRecord \in Int
         /\ \A v \in DOMAIN stats.storeStats.recordsByVersion :
              v \in Nat /\ stats.storeStats.recordsByVersion[v] \in Nat
  /\ \A id \in Ids :
       LET outcome == retrieve(id)
       IN  ~outcome.ok =>
             /\ DOMAIN outcome.message = {"text", "version", "current", "previous"}
             /\ outcome.message.text \in RetrieveErrors
             /\ outcome.data = NoData
             /\ IF outcome.message.text = KeyVersionExpired
                  THEN /\ outcome.message.version = storage[id].keyVersion
                       /\ outcome.message.current = currentVersion
                       /\ outcome.message.previous = previousVersion
                  ELSE outcome.message = Plain(outcome.message.text)

C20_Witness ==
  /\ result.op = "retrieve"
  /\ ~result.ok
  /\ result.message.text = KeyVersionExpired
  /\ result.message.current = getKeyInfo.currentVersion
  /\ result.message.previous = getStats.keyInfo.previousVersion
  /\ getStats.storeStats.totalRecords = 1
  /\ currentKey # NoKey
  /\ previousKey # NoKey

C22_StatusPerFailure ==
  [][/\ \A id \in Ids :
          GetRetrieve(id) =>
            IF id \notin DOMAIN storage
              THEN retrieveStatus(result') = 404
              ELSE IF ~isVersionSupported(storage[id].keyVersion)
                THEN retrieveStatus(result') = 410
                ELSE (~result'.ok) => retrieveStatus(result') = 500
     /\ \A r \in IVs :
          PostStore(Prim("undefined", 0), r) =>
            /\ storeStatus(result') = 400
            /\ UNCHANGED <<storage, nextId>>]_vars

C22_Witness ==
  /\ result.op = "retrieve"
  /\ result.id \in DOMAIN storage
  /\ isVersionSupported(storage[result.id].keyVersion)
  /\ FlippedBits(storage[result.id]) >= 1
  /\ result.decryptCalled
  /\ retrieveStatus(result) = 500

(* C23: in every reachable state and for every version v,                  *)
(* isVersionSupported(v) is true exactly when getKeyByVersion(v) returns a *)
(* key, so retrieve never throws 'Decryption key not available'.           *)
C23_SupportedIffKey ==
  /\ \A v \in Versions : isVersionSupported(v) <=> (getKeyByVersion(v) # NoKey)
  /\ \A id \in Ids : retrieve(id).message.text # KeyNotAvailable
  /\ result.message.text # KeyNotAvailable

C23_Witness ==
  /\ result.op = "retrieve"
  /\ result.id \in DOMAIN storage
  /\ result.message.text = KeyVersionExpired
  /\ ~isVersionSupported(storage[result.id].keyVersion)
  /\ getKeyByVersion(storage[result.id].keyVersion) = NoKey
  /\ isVersionSupported(previousVersion)
  /\ getKeyByVersion(previousVersion) = previousKey

(* C24 as stated: after any sequence of stores and rotations, every stored *)
(* record whose keyVersion is currentVersion or previousVersion retrieves  *)
(* successfully with its original data; the key resolved for its version   *)
(* is the key that encrypted it.                                           *)
C24_SupportedRecordsRetrieve ==
  \A id \in DOMAIN storage :
    storage[id].keyVersion \in {currentVersion, previousVersion} =>
      /\ retrieve(id).ok
      /\ retrieve(id).data = written[id].data
      /\ getKeyByVersion(storage[id].keyVersion) = KeyOf(storage[id])

(* C24 amended: every such record retrieves successfully, the key resolved *)
(* for its version is the key that encrypted it, and the data returned is  *)
(* JSON.parse(JSON.stringify(original)): the original whenever JSON        *)
(* reproduces it.                                                          *)
C24_SupportedRecordsRetrieveJson ==
  \A id \in DOMAIN storage :
    storage[id].keyVersion \in {currentVersion, previousVersion} =>
      LET outcome == retrieve(id)
      IN  /\ outcome.ok
          /\ outcome.data = JsonRoundTrip(written[id].data)
          /\ (JsonRoundTrip(written[id].data) = written[id].data
                => outcome.data = written[id].data)
          /\ getKeyByVersion(storage[id].keyVersion) = KeyOf(storage[id])

C24_Witness ==
  /\ result.op = "retrieve"
  /\ result.ok
  /\ result.id \in DOMAIN storage
  /\ currentVersion = 3
  /\ storage[result.id].keyVersion = 2
  /\ previousVersion = 2
  /\ KeyOf(storage[result.id]) = previousKey
  /\ previousKey # currentKey
  /\ result.data = written[result.id].data

(* C25 as stated: each derived key is bound to one key version: the key    *)
(* served for currentVersion differs from the key served for               *)
(* previousVersion, and no key is served for two different versions.       *)
C25_OneVersionPerKey ==
  \A v \in Versions, w \in Versions :
    (v # w /\ getKeyByVersion(v) # NoKey /\ getKeyByVersion(w) # NoKey) =>
      KeyBytes(getKeyByVersion(v)) # KeyBytes(getKeyByVersion(w))

(* C26: rotation never runs concurrently with itself: at most one rotateKey *)
(* invocation is in progress, one triggered meanwhile stays queued until    *)
(* the first has completed, and the key state a rotation in progress sees   *)
(* is its own steps applied to the state it started from.                   *)
C26_RotationsDoNotInterleave ==
  /\ Cardinality(InProgress) <= 1
  /\ \A i \in InProgress :
       /\ i = 1
       /\ rotating[i].step = "move" => currentVersion = rotating[i].from
       /\ rotating[i].step = "increment" =>
            /\ currentVersion = rotating[i].from
            /\ previousVersion = rotating[i].from
            /\ previousKey = currentKey
       /\ rotating[i].step \in {"derive", "stamp"} =>
            /\ currentVersion = rotating[i].from + 1
            /\ previousVersion = rotating[i].from
       /\ rotating[i].step = "stamp" =>
            /\ currentKey.info = rotating[i].from + 1
            /\ previousKey # currentKey

C26_Witness ==
  /\ Len(rotating) = 2
  /\ rotating[1].step = "stamp"
  /\ rotating[1].trigger = "timer"
  /\ rotating[2].step = "queued"
  /\ rotating[2].trigger = "force"
  /\ currentVersion = rotating[1].from + 1

(* C27 as stated: after destroy no timer-driven rotation fires again and   *)
(* no later operation changes currentVersion or previousVersion.           *)
C27_ShutdownTerminal ==
  [][rotationTimer = "null" =>
       /\ ~(\E salt \in Salts, derived \in BOOLEAN : TimerRotation(salt, derived))
       /\ UNCHANGED <<currentVersion, previousVersion>>]_vars

(* C28 as stated: before shutdown, getKeyInfo().nextRotationTime is        *)
(* lastRotationTime + rotationInterval and is the instant at which the     *)
(* next automatic rotation fires, also after a forceRotation.              *)
C28_NextRotationIsSchedule ==
  (process = "running" /\ rotationTimer = "armed") =>
    /\ getKeyInfo.nextRotationTime = lastRotationTime + rotationIntervalMs
    /\ getKeyInfo.nextRotationTime = timerDue

(* C29: when decrypt raises the authentication failure, retrieve throws    *)
(* that same error, with the same message, to its caller: it is not        *)
(* wrapped, decrypt is not tried again, and the other retained key is not  *)
(* tried.                                                                  *)
C29_DecryptFailurePropagates ==
  /\ \A id \in DOMAIN storage :
       (isVersionSupported(storage[id].keyVersion) /\ FlippedBits(storage[id]) >= 1) =>
         LET encryptedData == deserialize(storage[id])
             decrypted == decrypt(encryptedData.ciphertext, encryptedData.iv,
                                  encryptedData.tag,
                                  getKeyByVersion(storage[id].keyVersion))
         IN  (~decrypted.ok) =>
               /\ decrypted.message = AuthenticationFailed
               /\ retrieve(id) = Throws("retrieve", Plain(decrypted.message), id, TRUE)
  /\ (result.op = "retrieve" /\ result.decryptCalled /\ ~result.ok) =>
       result = Throws("retrieve", Plain(AuthenticationFailed), result.id, TRUE)

C29_Witness ==
  /\ result.op = "retrieve"
  /\ result.id \in DOMAIN storage
  /\ result = Throws("retrieve", Plain(AuthenticationFailed), result.id, TRUE)
  /\ storage[result.id].tag.mask # {}
  /\ storage[result.id].keyVersion = currentVersion
  /\ previousKey # NoKey
  /\ previousKey # currentKey

(* C30: a rotation, by the timer or forced, with or without records in the *)
(* store, leaves the set of stored records and every field of every record *)
(* unchanged; what it changes in the key manager is the key pair, the two  *)
(* version numbers and lastRotationTime.                                   *)
C30_RotationKeepsRecords ==
  [][RotationStep =>
       /\ storage' = storage
       /\ DOMAIN storage' = DOMAIN storage
       /\ \A id \in DOMAIN storage :
            \A field \in RecordFields : storage'[id][field] = storage[id][field]
       /\ UNCHANGED <<nextId, written, masterKey, masterKeyBuffer, rotationTimer>>]_vars

C30_Witness ==
  /\ result.op \in {"forceRotation", "timer"}
  /\ result.ok
  /\ 1 \in DOMAIN storage
  /\ storage[1].keyVersion = 1
  /\ currentVersion = 3
  /\ previousVersion = 2
  /\ lastRotationTime = now

(* C31: retrieve is read-only: whether it succeeds or fails (not found,    *)
(* expired version, authentication failure) it leaves the key pair, the    *)
(* version numbers and every stored record unchanged; a record whose       *)
(* version has expired is not purged and stays counted in getStats.        *)
C31_RetrieveReadOnly ==
  [][\A id \in Ids :
       Retrieve(id) =>
         /\ UNCHANGED <<currentKey, previousKey, currentVersion, previousVersion,
                        lastRotationTime, storage, nextId>>
         /\ getStats' = getStats
         /\ (id \in DOMAIN storage /\ ~isVersionSupported(storage[id].keyVersion)) =>
              /\ id \in DOMAIN storage'
              /\ storage'[id] = storage[id]
              /\ storeStats'.totalRecords = storeStats.totalRecords
              /\ storeStats'.totalRecords >= 1]_vars

C31_Witness ==
  /\ result.op = "retrieve"
  /\ ~result.ok
  /\ result.message.text = KeyVersionExpired
  /\ result.id \in DOMAIN storage
  /\ ~isVersionSupported(storage[result.id].keyVersion)
  /\ storeStats.totalRecords = 1
  /\ storeStats.recordsByVersion[storage[result.id].keyVersion] = 1

(* C32: a failed store changes nothing: when encryption fails inside       *)
(* store, no record is added to the data store, the key state is unchanged *)
(* and the caller receives the one wrapped error 'Failed to store data'.   *)
C32_FailedStoreChangesNothing ==
  [][\A data \in Payloads, r \in IVs :
       (Store(data, r) /\ ~encrypt(data, getCurrentKey.key, r).ok) =>
         /\ UNCHANGED <<storage, nextId>>
         /\ getStats' = getStats
         /\ UNCHANGED <<currentKey, previousKey, currentVersion, previousVersion,
                        lastRotationTime>>
         /\ result' = Throws("store", Plain(StoreFailed), 0, FALSE)
         /\ result'.message.text # encrypt(data, getCurrentKey.key, r).message]_vars

C32_Witness ==
  /\ result = Throws("store", Plain(StoreFailed), 0, FALSE)
  /\ storage = <<>>
  /\ nextId = 1
  /\ storeStats.totalRecords = 0
  /\ currentVersion = 2
  /\ ~encrypt(Prim("undefined", 0), currentKey, 1).ok

(* C33 as stated: the timestamp store(P) returns is the instant a later    *)
(* retrieve of that id reports as metadata.encryptedAt.                    *)
C33_StoreTimestampIsEncryptedAt ==
  (result.op = "store" /\ result.ok /\ retrieve(result.id).ok) =>
    retrieve(result.id).timestamp = result.timestamp

(* C34: VaultService.destroy empties the data store: after destroy,        *)
(* getStats reports zero records and retrieve of every id store returned   *)
(* before fails with 'Record not found', and keeps failing so afterwards.   *)
C34_DestroyEmptiesStore ==
  [][/\ Destroy =>
          /\ storage' = <<>>
          /\ getStats'.storeStats.totalRecords = 0
          /\ \A id \in DOMAIN written :
               retrieve(id)' = Throws("retrieve", Plain(RecordNotFound), id, FALSE)
     /\ \A id \in DOMAIN written \ DOMAIN storage :
          /\ id \notin DOMAIN storage'
          /\ retrieve(id)'.message.text = RecordNotFound]_vars

C34_Witness ==
  /\ rotationTimer = "null"
  /\ result.op = "retrieve"
  /\ result.id \in DOMAIN written
  /\ result = Throws("retrieve", Plain(RecordNotFound), result.id, FALSE)
  /\ storage = <<>>
  /\ getStats.storeStats.totalRecords = 0

====
